---- MODULE Spec2Model ----
(***************************************************************************)
(* Time-control engine of the byo-yomi game clock (src/core/timeControl.ts *)
(* and src/core/gameState.ts).  One player's clock state is threaded       *)
(* through calls of tick and onMove under a fixed configuration; the       *)
(* variables record the last call (its input state, its delta and the      *)
(* flags it returned) so that the contract of each function can be stated  *)
(* over every call made from a state the clock can reach.                  *)
(*                                                                         *)
(* These specifications share the module:                                  *)
(*   Spec           the engine, tick and onMove on one player's clock;     *)
(*   AllowanceSpec  the engine ticked from a fresh clock with no onMove,   *)
(*                  the deltas summed up;                                  *)
(*   FormatSpec     formatTime applied to a range of millisecond values;   *)
(*   GameSpec       the game driver (src/hooks/useGameClock.ts) with the   *)
(*                  taps of src/components/GameBoard.tsx;                  *)
(*   GameLiveSpec   GameSpec with frames and renders that keep arriving;   *)
(*   WakeLockSpec   the screen wake lock (src/hooks/useWakeLock.ts).       *)
(* Each one holds the variables of the others at their idle values.        *)
(***************************************************************************)
EXTENDS Integers, FiniteSets, Sequences, Bags, TLC

VARIABLES
    config,          \* TimeControlConfig, fixed for the game
    state,           \* PlayerState held by the caller
    op,              \* last call: "init", "tick" or "onMove"
    input,           \* PlayerState passed to the last call
    deltaMs,         \* deltaMs passed to the last tick
    expired,         \* TickResult.expired of the last tick
    enteredOvertime, \* TickResult.enteredOvertime of the last tick
    onMoveCalls,     \* number of onMove calls made so far
    elapsedMs,       \* sum of the deltas of the ticks made so far
                     \* (AllowanceSpec only)
    ms,              \* argument of formatTime
    formatted,       \* string returned by formatTime, NotFormatted before
    game,            \* GameState held by useGameClock (useState)
    rendered,        \* status and activePlayer of the last committed render:
                     \* gameStateRef.current and the closure of handleTap
    pending,         \* calls of start, switchTurn and resume that await
                     \* initAudio(): call -> number of such calls
    lastTickSet,     \* lastTickRef.current # 0
    frameScheduled,  \* animationFrameRef.current # 0
    lowTimeAlertedRef,   \* lowTimeAlertedRef.current
    enteredOvertimeRef,  \* enteredOvertimeRef.current
    prevDisplayMsRef,    \* prevDisplayMsRef.current
    gop,             \* last operation of the driver
    frameResult,     \* flags of the TickResult the last operation obtained,
                     \* Null if it made no tick
    cues,            \* cues handed to play() by the last operation
    sinceLastTick,   \* what the wall-clock time since lastTickRef.current
                     \* was assigned holds: time with a status other than
                     \* running, time of the other player's turn
    active,          \* argument of useWakeLock in the last render
    visibilityState, \* document.visibilityState
    wakeLockRef,     \* wakeLockRef.current: a sentinel or Null
    held,            \* sentinels acquired and not released
    issued,          \* number of sentinels the platform has handed out
    requests,        \* calls of navigator.wakeLock.request in flight
    releases         \* calls of releaseWakeLock that await release():
                     \* sentinel -> number of such calls

engineVars ==
    <<state, op, input, deltaMs, expired, enteredOvertime, onMoveCalls,
      elapsedMs>>

formatVars == <<ms, formatted>>

refVars ==
    <<lastTickSet, frameScheduled, lowTimeAlertedRef, enteredOvertimeRef,
      prevDisplayMsRef>>

gameVars ==
    <<game, rendered, pending, refVars, gop, frameResult, cues,
      sinceLastTick>>

wakeVars ==
    <<active, visibilityState, wakeLockRef, held, issued, requests,
      releases>>

vars == <<config, engineVars, formatVars, gameVars, wakeVars>>

----------------------------------------------------------------------------
(* Bounds of the model *)

MaxMainTimeSeconds == 2
MaxPeriods == 3
MaxPeriodTimeSeconds == 2
MaxStones == 2
MaxOvertimeSeconds == 2
MaxIncrementSeconds == 1
MaxMoves == 3
DeltaStepMs == 500
MaxDeltaSteps == 10

(* Program constant: seconds to milliseconds *)
MsPerSecond == 1000

(* The deltas a caller hands to tick: any non-negative number of ms *)
Deltas == {k * DeltaStepMs : k \in 0..MaxDeltaSteps}

----------------------------------------------------------------------------
(* Data model: src/core/gameState.ts *)

ByoYomiConfig ==
    [type : {"byoyomi"},
     mainTimeSeconds : 0..MaxMainTimeSeconds,
     periods : 0..MaxPeriods,
     periodTimeSeconds : 1..MaxPeriodTimeSeconds]

CanadianConfig ==
    [type : {"canadian"},
     mainTimeSeconds : 0..MaxMainTimeSeconds,
     stones : 1..MaxStones,
     overtimeSeconds : 1..MaxOvertimeSeconds]

FischerConfig ==
    [type : {"fischer"},
     mainTimeSeconds : 0..MaxMainTimeSeconds,
     incrementSeconds : 0..MaxIncrementSeconds]

TimeControlConfig == ByoYomiConfig \cup CanadianConfig \cup FischerConfig

\* overtime: OvertimeState | null
Null == [type |-> "null"]

createInitialPlayerState(cfg) ==
    [mainTimeRemainingMs |-> cfg.mainTimeSeconds * MsPerSecond,
     overtime |-> Null,
     moves |-> 0,
     isInOvertime |-> FALSE]

----------------------------------------------------------------------------
(* Engine: src/core/timeControl.ts *)

\* variant: the fresh byo-yomi state starts one period short
createOvertimeStateOnePeriodShort(cfg) ==
    CASE cfg.type = "byoyomi" ->
            [type |-> "byoyomi",
             periodsRemaining |-> cfg.periods - 1,
             periodTimeRemainingMs |-> cfg.periodTimeSeconds * MsPerSecond]
      [] cfg.type = "canadian" ->
            [type |-> "canadian",
             stonesRemaining |-> cfg.stones,
             overtimeRemainingMs |-> cfg.overtimeSeconds * MsPerSecond]
      [] cfg.type = "fischer" -> Null

createOvertimeState(cfg) ==
    CASE cfg.type = "byoyomi" ->
            [type |-> "byoyomi",
             periodsRemaining |-> cfg.periods,
             periodTimeRemainingMs |-> cfg.periodTimeSeconds * MsPerSecond]
      [] cfg.type = "canadian" ->
            [type |-> "canadian",
             stonesRemaining |-> cfg.stones,
             overtimeRemainingMs |-> cfg.overtimeSeconds * MsPerSecond]
      [] cfg.type = "fischer" -> Null

\* variant: the next period is reset to the full duration (= instead of +=),
\* losing the negative remainder
RECURSIVE consumePeriodsNoCarry(_, _)
consumePeriodsNoCarry(overtime, cfg) ==
    IF overtime.periodTimeRemainingMs <= 0 /\ overtime.periodsRemaining > 0
    THEN LET consumed == [overtime EXCEPT !.periodsRemaining = @ - 1]
             next == IF consumed.periodsRemaining > 0
                     THEN [consumed EXCEPT !.periodTimeRemainingMs =
                               cfg.periodTimeSeconds * MsPerSecond]
                     ELSE consumed
         IN  consumePeriodsNoCarry(next, cfg)
    ELSE overtime

\* the while loop of tickOvertime: consume periods while the period time is
\* not positive and periods remain
RECURSIVE consumePeriods(_, _)
consumePeriods(overtime, cfg) ==
    IF overtime.periodTimeRemainingMs <= 0 /\ overtime.periodsRemaining > 0
    THEN LET consumed == [overtime EXCEPT !.periodsRemaining = @ - 1]
             next == IF consumed.periodsRemaining > 0
                     THEN [consumed EXCEPT !.periodTimeRemainingMs =
                               @ + cfg.periodTimeSeconds * MsPerSecond]
                     ELSE consumed
         IN  consumePeriods(next, cfg)
    ELSE overtime

\* variant: expiry is tested with <= 1 instead of <= 0
tickByoyomiLastPeriodExpires(st, cfg, delta) ==
    LET ticked == [st.overtime EXCEPT !.periodTimeRemainingMs = @ - delta]
        overtime == consumePeriods(ticked, cfg)
    IN  IF overtime.periodsRemaining <= 1
        THEN [newState |-> [st EXCEPT !.overtime =
                               [overtime EXCEPT !.periodTimeRemainingMs = 0]],
              expired |-> TRUE]
        ELSE [newState |-> [st EXCEPT !.overtime = overtime],
              expired |-> FALSE]

\* byo-yomi branch of tickOvertime
tickByoyomi(st, cfg, delta) ==
    LET ticked == [st.overtime EXCEPT !.periodTimeRemainingMs = @ - delta]
        overtime == consumePeriods(ticked, cfg)
    IN  IF overtime.periodsRemaining <= 0
        THEN [newState |-> [st EXCEPT !.overtime =
                               [overtime EXCEPT !.periodTimeRemainingMs = 0]],
              expired |-> TRUE]
        ELSE [newState |-> [st EXCEPT !.overtime = overtime],
              expired |-> FALSE]

\* variant: the expired Canadian counter is not clamped to 0
tickCanadianNoClamp(st, cfg, delta) ==
    LET overtime == [st.overtime EXCEPT !.overtimeRemainingMs = @ - delta]
    IN  IF overtime.overtimeRemainingMs <= 0
        THEN [newState |-> [st EXCEPT !.overtime = overtime],
              expired |-> TRUE]
        ELSE [newState |-> [st EXCEPT !.overtime = overtime],
              expired |-> FALSE]

\* variant: expiry is tested with < 0 instead of <= 0
tickCanadianStrict(st, cfg, delta) ==
    LET overtime == [st.overtime EXCEPT !.overtimeRemainingMs = @ - delta]
    IN  IF overtime.overtimeRemainingMs < 0
        THEN [newState |-> [st EXCEPT !.overtime =
                               [overtime EXCEPT !.overtimeRemainingMs = 0]],
              expired |-> TRUE]
        ELSE [newState |-> [st EXCEPT !.overtime = overtime],
              expired |-> FALSE]

\* Canadian branch of tickOvertime
tickCanadian(st, cfg, delta) ==
    LET overtime == [st.overtime EXCEPT !.overtimeRemainingMs = @ - delta]
    IN  IF overtime.overtimeRemainingMs <= 0
        THEN [newState |-> [st EXCEPT !.overtime =
                               [overtime EXCEPT !.overtimeRemainingMs = 0]],
              expired |-> TRUE]
        ELSE [newState |-> [st EXCEPT !.overtime = overtime],
              expired |-> FALSE]

tickOvertime(st, cfg, delta) ==
    IF cfg.type = "byoyomi" /\ st.overtime.type = "byoyomi"
    THEN tickByoyomi(st, cfg, delta)
    ELSE IF cfg.type = "canadian" /\ st.overtime.type = "canadian"
    THEN tickCanadian(st, cfg, delta)
    ELSE IF cfg.type = "fischer"
    THEN [newState |-> st, expired |-> TRUE]
    ELSE [newState |-> st, expired |-> FALSE]

\* variant: the main time is left at its negative remainder instead of
\* being clamped to 0
enterOvertimeKeepsRemainder(st, cfg, overflow) ==
    LET entered == [st EXCEPT !.mainTimeRemainingMs = -overflow,
                              !.isInOvertime = TRUE,
                              !.overtime = createOvertimeState(cfg)]
    IN  IF entered.overtime # Null
        THEN LET result == tickOvertime(entered, cfg, overflow)
             IN  [newState |-> result.newState,
                  expired |-> result.expired,
                  enteredOvertime |-> TRUE]
        ELSE [newState |-> entered, expired |-> TRUE, enteredOvertime |-> TRUE]

\* variant: the overflow is dropped on entering overtime (left to the next
\* call)
enterOvertimeDropsOverflow(st, cfg, overflow) ==
    LET entered == [st EXCEPT !.mainTimeRemainingMs = 0,
                              !.isInOvertime = TRUE,
                              !.overtime = createOvertimeState(cfg)]
    IN  IF entered.overtime # Null
        THEN LET result == tickOvertime(entered, cfg, 0)
             IN  [newState |-> result.newState,
                  expired |-> result.expired,
                  enteredOvertime |-> TRUE]
        ELSE [newState |-> entered, expired |-> TRUE, enteredOvertime |-> TRUE]

\* variant: the branch for a missing overtime state does not set expired
enterOvertimeFischerNotExpired(st, cfg, overflow) ==
    LET entered == [st EXCEPT !.mainTimeRemainingMs = 0,
                              !.isInOvertime = TRUE,
                              !.overtime = createOvertimeState(cfg)]
    IN  IF entered.overtime # Null
        THEN LET result == tickOvertime(entered, cfg, overflow)
             IN  [newState |-> result.newState,
                  expired |-> result.expired,
                  enteredOvertime |-> TRUE]
        ELSE [newState |-> entered, expired |-> FALSE, enteredOvertime |-> TRUE]

\* main time exhausted: the branch of tick taken when the main time left
\* after the subtraction is <= 0; overflow is minus that remainder
enterOvertime(st, cfg, overflow) ==
    LET entered == [st EXCEPT !.mainTimeRemainingMs = 0,
                              !.isInOvertime = TRUE,
                              !.overtime = createOvertimeState(cfg)]
    IN  IF entered.overtime # Null
        THEN LET result == tickOvertime(entered, cfg, overflow)
             IN  [newState |-> result.newState,
                  expired |-> result.expired,
                  enteredOvertime |-> TRUE]
        ELSE [newState |-> entered, expired |-> TRUE, enteredOvertime |-> TRUE]

\* variant: enteredOvertime is taken from the state's flag instead of being
\* set only on the transition
tickFlagFromState(st, cfg, delta) ==
    IF st.isInOvertime
    THEN LET result == tickOvertime(st, cfg, delta)
         IN  [newState |-> result.newState,
              expired |-> result.expired,
              enteredOvertime |-> result.newState.isInOvertime]
    ELSE LET remaining == st.mainTimeRemainingMs - delta
         IN  IF remaining <= 0
             THEN enterOvertime(st, cfg, -remaining)
             ELSE [newState |-> [st EXCEPT !.mainTimeRemainingMs = remaining],
                   expired |-> FALSE,
                   enteredOvertime |-> FALSE]

\* variant: the subtraction is made on a discarded copy, the main time of
\* the returned state is the input's
tickKeepsMainTime(st, cfg, delta) ==
    IF st.isInOvertime
    THEN LET result == tickOvertime(st, cfg, delta)
         IN  [newState |-> result.newState,
              expired |-> result.expired,
              enteredOvertime |-> FALSE]
    ELSE LET remaining == st.mainTimeRemainingMs - delta
         IN  IF remaining <= 0
             THEN enterOvertime(st, cfg, -remaining)
             ELSE [newState |-> st,
                   expired |-> FALSE,
                   enteredOvertime |-> FALSE]

\* variant: the result of tickOvertime is passed on without its expired flag
tickDropsOvertimeExpiry(st, cfg, delta) ==
    IF st.isInOvertime
    THEN LET result == tickOvertime(st, cfg, delta)
         IN  [newState |-> result.newState,
              expired |-> FALSE,
              enteredOvertime |-> FALSE]
    ELSE LET remaining == st.mainTimeRemainingMs - delta
         IN  IF remaining <= 0
             THEN enterOvertime(st, cfg, -remaining)
             ELSE [newState |-> [st EXCEPT !.mainTimeRemainingMs = remaining],
                   expired |-> FALSE,
                   enteredOvertime |-> FALSE]

tick(st, cfg, delta) ==
    IF st.isInOvertime
    THEN LET result == tickOvertime(st, cfg, delta)
         IN  [newState |-> result.newState,
              expired |-> result.expired,
              enteredOvertime |-> FALSE]
    ELSE LET remaining == st.mainTimeRemainingMs - delta
         IN  IF remaining <= 0
             THEN enterOvertime(st, cfg, -remaining)
             ELSE [newState |-> [st EXCEPT !.mainTimeRemainingMs = remaining],
                   expired |-> FALSE,
                   enteredOvertime |-> FALSE]

\* variant: a move in overtime also consumes the period
onMoveByoyomiConsumesPeriod(st, cfg) ==
    [st EXCEPT !.overtime.periodTimeRemainingMs =
                   cfg.periodTimeSeconds * MsPerSecond,
               !.overtime.periodsRemaining =
                   IF @ > 0 THEN @ - 1 ELSE 0]

\* byo-yomi branch of onMove
onMoveByoyomi(st, cfg) ==
    [st EXCEPT !.overtime.periodTimeRemainingMs =
                   cfg.periodTimeSeconds * MsPerSecond]

\* variant: the stone quota is reset with < 0 instead of <= 0
onMoveCanadianStrict(st, cfg) ==
    LET stones == st.overtime.stonesRemaining - 1
    IN  IF stones < 0
        THEN [st EXCEPT !.overtime =
                 [type |-> "canadian",
                  stonesRemaining |-> cfg.stones,
                  overtimeRemainingMs |-> cfg.overtimeSeconds * MsPerSecond]]
        ELSE [st EXCEPT !.overtime.stonesRemaining = stones]

\* Canadian branch of onMove
onMoveCanadian(st, cfg) ==
    LET stones == st.overtime.stonesRemaining - 1
    IN  IF stones <= 0
        THEN [st EXCEPT !.overtime =
                 [type |-> "canadian",
                  stonesRemaining |-> cfg.stones,
                  overtimeRemainingMs |-> cfg.overtimeSeconds * MsPerSecond]]
        ELSE [st EXCEPT !.overtime.stonesRemaining = stones]

\* variant: the Fischer increment is granted without the overtime test
onMoveIncrementInOvertime(st, cfg) ==
    LET newState == [st EXCEPT !.moves = @ + 1]
    IN  IF cfg.type = "fischer"
        THEN [newState EXCEPT !.mainTimeRemainingMs =
                                  @ + cfg.incrementSeconds * MsPerSecond]
        ELSE IF cfg.type = "byoyomi" /\ newState.isInOvertime
                /\ newState.overtime.type = "byoyomi"
        THEN onMoveByoyomi(newState, cfg)
        ELSE IF cfg.type = "canadian" /\ newState.isInOvertime
                /\ newState.overtime.type = "canadian"
        THEN onMoveCanadian(newState, cfg)
        ELSE newState

\* variant: the overtime branches rebuild the state from the input and lose
\* the incremented move counter
onMoveNotCountedInOvertime(st, cfg) ==
    LET newState == [st EXCEPT !.moves = @ + 1]
    IN  IF cfg.type = "fischer" /\ ~newState.isInOvertime
        THEN [newState EXCEPT !.mainTimeRemainingMs =
                                  @ + cfg.incrementSeconds * MsPerSecond]
        ELSE IF cfg.type = "byoyomi" /\ newState.isInOvertime
                /\ newState.overtime.type = "byoyomi"
        THEN onMoveByoyomi(st, cfg)
        ELSE IF cfg.type = "canadian" /\ newState.isInOvertime
                /\ newState.overtime.type = "canadian"
        THEN onMoveCanadian(st, cfg)
        ELSE newState

\* variant: a main-time move under byo-yomi or Canadian already installs
\* the overtime state
onMoveInstallsOvertime(st, cfg) ==
    LET newState == [st EXCEPT !.moves = @ + 1]
    IN  IF cfg.type = "fischer" /\ ~newState.isInOvertime
        THEN [newState EXCEPT !.mainTimeRemainingMs =
                                  @ + cfg.incrementSeconds * MsPerSecond]
        ELSE IF cfg.type = "byoyomi" /\ newState.isInOvertime
                /\ newState.overtime.type = "byoyomi"
        THEN onMoveByoyomi(newState, cfg)
        ELSE IF cfg.type = "canadian" /\ newState.isInOvertime
                /\ newState.overtime.type = "canadian"
        THEN onMoveCanadian(newState, cfg)
        ELSE IF cfg.type # "fischer" /\ ~newState.isInOvertime
        THEN [newState EXCEPT !.overtime = createOvertimeState(cfg)]
        ELSE newState

onMove(st, cfg) ==
    LET newState == [st EXCEPT !.moves = @ + 1]
    IN  IF cfg.type = "fischer" /\ ~newState.isInOvertime
        THEN [newState EXCEPT !.mainTimeRemainingMs =
                                  @ + cfg.incrementSeconds * MsPerSecond]
        ELSE IF cfg.type = "byoyomi" /\ newState.isInOvertime
                /\ newState.overtime.type = "byoyomi"
        THEN onMoveByoyomi(newState, cfg)
        ELSE IF cfg.type = "canadian" /\ newState.isInOvertime
                /\ newState.overtime.type = "canadian"
        THEN onMoveCanadian(newState, cfg)
        ELSE newState

\* variant: the overtime counters are ignored, the main time is shown
getDisplayTimeMainOnly(st) ==
    st.mainTimeRemainingMs

getDisplayTime(st) ==
    IF ~st.isInOvertime
    THEN st.mainTimeRemainingMs
    ELSE IF st.overtime.type = "byoyomi"
    THEN st.overtime.periodTimeRemainingMs
    ELSE IF st.overtime.type = "canadian"
    THEN st.overtime.overtimeRemainingMs
    ELSE st.mainTimeRemainingMs

\* Math.ceil(a / b) for integers a and b > 0
MathCeilDiv(a, b) ==
    IF a % b = 0 THEN a \div b ELSE (a \div b) + 1

MathMax(a, b) == IF a >= b THEN a ELSE b

\* n.toString().padStart(2, '0')
padStart2(n) ==
    LET str == ToString(n)
    IN  IF Len(str) < 2 THEN "0" \o str ELSE str

\* variant: the seconds are rounded down (Math.floor) instead of up
formatTimeFloor(millis) ==
    LET totalSeconds == MathMax(0, millis \div MsPerSecond)
        hours == totalSeconds \div 3600
        minutes == (totalSeconds % 3600) \div 60
        seconds == totalSeconds % 60
    IN  IF hours > 0
        THEN ToString(hours) \o ":" \o padStart2(minutes) \o ":"
                 \o padStart2(seconds)
        ELSE ToString(minutes) \o ":" \o padStart2(seconds)

formatTime(millis) ==
    LET totalSeconds == MathMax(0, MathCeilDiv(millis, MsPerSecond))
        hours == totalSeconds \div 3600
        minutes == (totalSeconds % 3600) \div 60
        seconds == totalSeconds % 60
    IN  IF hours > 0
        THEN ToString(hours) \o ":" \o padStart2(minutes) \o ":"
                 \o padStart2(seconds)
        ELSE ToString(minutes) \o ":" \o padStart2(seconds)

----------------------------------------------------------------------------
(* Idle values of the variables a specification does not use *)

NotFormatted == ""

FormatIdle ==
    /\ ms = 0
    /\ formatted = NotFormatted

\* lastTickRef.current has just been assigned, or holds no timestamp
NothingSince == [notRunning |-> FALSE, otherTurn |-> FALSE]

GameIdle ==
    /\ game = Null
    /\ rendered = Null
    /\ pending = EmptyBag
    /\ lastTickSet = FALSE
    /\ frameScheduled = FALSE
    /\ lowTimeAlertedRef = {}
    /\ enteredOvertimeRef = {}
    /\ prevDisplayMsRef = 0
    /\ gop = "init"
    /\ frameResult = Null
    /\ cues = {}
    /\ sinceLastTick = NothingSince

WakeIdle ==
    /\ active = FALSE
    /\ visibilityState = "visible"
    /\ wakeLockRef = Null
    /\ held = {}
    /\ issued = 0
    /\ requests = 0
    /\ releases = EmptyBag

----------------------------------------------------------------------------
(* The clock as a state machine: a caller threads one PlayerState through  *)
(* tick and onMove.                                                        *)

Init ==
    /\ config \in TimeControlConfig
    /\ state = createInitialPlayerState(config)
    /\ op = "init"
    /\ input = state
    /\ deltaMs = 0
    /\ expired = FALSE
    /\ enteredOvertime = FALSE
    /\ onMoveCalls = 0
    /\ elapsedMs = 0
    /\ FormatIdle
    /\ GameIdle
    /\ WakeIdle

\* one call of tick with the delta d
TickCall(d) ==
    LET result == tick(state, config, d)
    IN  /\ state' = result.newState
        /\ op' = "tick"
        /\ input' = state
        /\ deltaMs' = d
        /\ expired' = result.expired
        /\ enteredOvertime' = result.enteredOvertime
        /\ UNCHANGED <<config, onMoveCalls, formatVars, gameVars, wakeVars>>

Tick ==
    \E d \in Deltas :
        /\ TickCall(d)
        /\ UNCHANGED elapsedMs

OnMove ==
    /\ state.moves < MaxMoves
    /\ state' = onMove(state, config)
    /\ op' = "onMove"
    /\ input' = state
    /\ onMoveCalls' = onMoveCalls + 1
    /\ UNCHANGED <<config, deltaMs, expired, enteredOvertime, elapsedMs,
                   formatVars, gameVars, wakeVars>>

Next == Tick \/ OnMove

Spec == Init /\ [][Next]_vars

----------------------------------------------------------------------------
(* A fresh clock that is only ticked, never moved: elapsedMs sums the      *)
(* deltas.  The sum stops short of MaxElapsedMs, which lies beyond the     *)
(* largest allowance a configuration of the model grants.                  *)

MaxElapsedMs ==
    (MaxMainTimeSeconds + MaxPeriods * MaxPeriodTimeSeconds
        + MaxOvertimeSeconds) * MsPerSecond

TickFromFresh ==
    \E d \in Deltas :
        /\ elapsedMs + d <= MaxElapsedMs
        /\ TickCall(d)
        /\ elapsedMs' = elapsedMs + d

AllowanceNext == TickFromFresh

AllowanceSpec == Init /\ [][AllowanceNext]_vars

----------------------------------------------------------------------------
(* formatTime on a range of inputs: whole and fractional seconds around    *)
(* the minute and hour boundaries, and negative values.                    *)

MaxFormatHours == 11

FormatInputs ==
    {h * 3600000 + m * 60000 + sec * 1000 + frac :
        h \in 0..MaxFormatHours, m \in {0, 1, 9, 10, 59},
        sec \in {0, 1, 9, 10, 59}, frac \in {-1, 0, 1, 999}}
    \cup {-5000, -1000, -999}

EngineIdle ==
    /\ state = Null
    /\ op = "init"
    /\ input = Null
    /\ deltaMs = 0
    /\ expired = FALSE
    /\ enteredOvertime = FALSE
    /\ onMoveCalls = 0
    /\ elapsedMs = 0

FormatInit ==
    /\ ms \in FormatInputs
    /\ formatted = NotFormatted
    /\ config = Null
    /\ EngineIdle
    /\ GameIdle
    /\ WakeIdle

FormatTime ==
    /\ formatted = NotFormatted
    /\ formatted' = formatTime(ms)
    /\ UNCHANGED <<config, engineVars, ms, gameVars, wakeVars>>

FormatNext == FormatTime

FormatSpec == FormatInit /\ [][FormatNext]_vars

----------------------------------------------------------------------------
(* Game driver: src/hooks/useGameClock.ts, tapped through                  *)
(* src/components/GameBoard.tsx.  A state update made with setGameState is *)
(* applied when it is made; a render commits later and on its own.         *)

MaxGameSeconds == 1
MaxGamePeriods == 2
MaxGameStones == 2
MaxGameTurns == 2
MaxFrameSteps == 3
MaxPendingCalls == 1

\* the configurations of the games played: a main time of nothing or of
\* MaxGameSeconds, and overtime durations of MaxGameSeconds
GameConfigs ==
    [type : {"byoyomi"},
     mainTimeSeconds : {0, MaxGameSeconds},
     periods : 0..MaxGamePeriods,
     periodTimeSeconds : {MaxGameSeconds}]
    \cup
    [type : {"canadian"},
     mainTimeSeconds : {0, MaxGameSeconds},
     stones : 1..MaxGameStones,
     overtimeSeconds : {MaxGameSeconds}]
    \cup
    [type : {"fischer"},
     mainTimeSeconds : {0, MaxGameSeconds},
     incrementSeconds : {0, MaxGameSeconds}]

\* deltaMs of a frame that passes the deltaMs > 0 test
FrameDeltas == {k * DeltaStepMs : k \in 1..MaxFrameSteps}

Player == {"black", "white"}

\* winner: Player | null
NoPlayer == "null"

Opponent(p) == IF p = "black" THEN "white" ELSE "black"

\* variant: the initial game state names white as the active player
createInitialGameStateWhiteFirst(cfg) ==
    [status |-> "waiting",
     activePlayer |-> "white",
     black |-> createInitialPlayerState(cfg),
     white |-> createInitialPlayerState(cfg),
     winner |-> NoPlayer]

createInitialGameState(cfg) ==
    [status |-> "waiting",
     activePlayer |-> "black",
     black |-> createInitialPlayerState(cfg),
     white |-> createInitialPlayerState(cfg),
     winner |-> NoPlayer]

\* the calls that await initAudio() before they update the state
\* tappedBy is the player whose clock was tapped to make the call
StartCall(p) ==
    [fn |-> "start", firstActivePlayer |-> p, tappedBy |-> Opponent(p)]
SwitchTurnCall(player) ==
    [fn |-> "switchTurn", firstActivePlayer |-> NoPlayer, tappedBy |-> player]
ResumeCall ==
    [fn |-> "resume", firstActivePlayer |-> NoPlayer, tappedBy |-> NoPlayer]

\* The moves made by both players
MovesMade(g) == g.black.moves + g.white.moves

\* the calls of switchTurn that await initAudio()
PendingSwitchTurns ==
    CopiesIn(SwitchTurnCall("black"), pending)
        + CopiesIn(SwitchTurnCall("white"), pending)

Await(call) == pending (+) SetToBag({call})
Resolve(call) == pending (-) SetToBag({call})

\* what a render commits of the game state
View(g) == [status |-> g.status, activePlayer |-> g.activePlayer]

\* variant: the winner is taken to be the player whose clock expired
gameLoopUpdateWinnerIsActive(prevState, cfg, delta, alerted, entered, prevDisplayMs) ==
    IF prevState.status # "running"
    THEN [game |-> prevState, alerted |-> alerted, entered |-> entered,
          prevDisplayMs |-> prevDisplayMs, result |-> Null, cues |-> {}]
    ELSE
    LET activePlayer == prevState.activePlayer
        result == tick(prevState[activePlayer], cfg, delta)
        flags == [expired |-> result.expired,
                  enteredOvertime |-> result.enteredOvertime]
        firstEntry == result.enteredOvertime /\ activePlayer \notin entered
        entered1 == IF firstEntry THEN entered \cup {activePlayer}
                    ELSE entered
        cues1 == IF firstEntry THEN {"alert"} ELSE {}
    IN  IF result.expired
        THEN [game |-> [prevState EXCEPT ![activePlayer] = result.newState,
                                         !.status = "ended",
                                         !.winner = activePlayer],
              alerted |-> alerted, entered |-> entered1,
              prevDisplayMs |-> prevDisplayMs, result |-> flags,
              cues |-> cues1 \cup {"gong"}]
        ELSE
        LET displayMs == getDisplayTime(result.newState)
            displaySeconds == MathCeilDiv(displayMs, 1000)
            increased == /\ displayMs > prevDisplayMs + 1000
                         /\ prevDisplayMs > 0
            alerted1 == IF increased THEN {} ELSE alerted
            cues2 == IF increased /\ ~result.enteredOvertime
                     THEN cues1 \cup {"alert"} ELSE cues1
            beep == /\ displaySeconds <= 5
                    /\ displaySeconds >= 1
                    /\ displaySeconds \notin alerted1
        IN  [game |-> [prevState EXCEPT ![activePlayer] = result.newState],
             alerted |-> IF beep THEN alerted1 \cup {displaySeconds}
                         ELSE alerted1,
             entered |-> entered1,
             prevDisplayMs |-> displayMs,
             result |-> flags,
             cues |-> IF beep THEN cues2 \cup {"tick"} ELSE cues2]

\* variant: the update ticks whatever the status of the state it lands on
gameLoopUpdateUnguarded(prevState, cfg, delta, alerted, entered, prevDisplayMs) ==
    IF FALSE
    THEN [game |-> prevState, alerted |-> alerted, entered |-> entered,
          prevDisplayMs |-> prevDisplayMs, result |-> Null, cues |-> {}]
    ELSE
    LET activePlayer == prevState.activePlayer
        result == tick(prevState[activePlayer], cfg, delta)
        flags == [expired |-> result.expired,
                  enteredOvertime |-> result.enteredOvertime]
        firstEntry == result.enteredOvertime /\ activePlayer \notin entered
        entered1 == IF firstEntry THEN entered \cup {activePlayer}
                    ELSE entered
        cues1 == IF firstEntry THEN {"alert"} ELSE {}
    IN  IF result.expired
        THEN [game |-> [prevState EXCEPT ![activePlayer] = result.newState,
                                         !.status = "ended",
                                         !.winner = Opponent(activePlayer)],
              alerted |-> alerted, entered |-> entered1,
              prevDisplayMs |-> prevDisplayMs, result |-> flags,
              cues |-> cues1 \cup {"gong"}]
        ELSE
        LET displayMs == getDisplayTime(result.newState)
            displaySeconds == MathCeilDiv(displayMs, 1000)
            increased == /\ displayMs > prevDisplayMs + 1000
                         /\ prevDisplayMs > 0
            alerted1 == IF increased THEN {} ELSE alerted
            cues2 == IF increased /\ ~result.enteredOvertime
                     THEN cues1 \cup {"alert"} ELSE cues1
            beep == /\ displaySeconds <= 5
                    /\ displaySeconds >= 1
                    /\ displaySeconds \notin alerted1
        IN  [game |-> [prevState EXCEPT ![activePlayer] = result.newState],
             alerted |-> IF beep THEN alerted1 \cup {displaySeconds}
                         ELSE alerted1,
             entered |-> entered1,
             prevDisplayMs |-> displayMs,
             result |-> flags,
             cues |-> IF beep THEN cues2 \cup {"tick"} ELSE cues2]

\* variant: no gong when the tick reports expired
gameLoopUpdateSilentExpiry(prevState, cfg, delta, alerted, entered, prevDisplayMs) ==
    IF prevState.status # "running"
    THEN [game |-> prevState, alerted |-> alerted, entered |-> entered,
          prevDisplayMs |-> prevDisplayMs, result |-> Null, cues |-> {}]
    ELSE
    LET activePlayer == prevState.activePlayer
        result == tick(prevState[activePlayer], cfg, delta)
        flags == [expired |-> result.expired,
                  enteredOvertime |-> result.enteredOvertime]
        firstEntry == result.enteredOvertime /\ activePlayer \notin entered
        entered1 == IF firstEntry THEN entered \cup {activePlayer}
                    ELSE entered
        cues1 == IF firstEntry THEN {"alert"} ELSE {}
    IN  IF result.expired
        THEN [game |-> [prevState EXCEPT ![activePlayer] = result.newState,
                                         !.status = "ended",
                                         !.winner = Opponent(activePlayer)],
              alerted |-> alerted, entered |-> entered1,
              prevDisplayMs |-> prevDisplayMs, result |-> flags,
              cues |-> cues1]
        ELSE
        LET displayMs == getDisplayTime(result.newState)
            displaySeconds == MathCeilDiv(displayMs, 1000)
            increased == /\ displayMs > prevDisplayMs + 1000
                         /\ prevDisplayMs > 0
            alerted1 == IF increased THEN {} ELSE alerted
            cues2 == IF increased /\ ~result.enteredOvertime
                     THEN cues1 \cup {"alert"} ELSE cues1
            beep == /\ displaySeconds <= 5
                    /\ displaySeconds >= 1
                    /\ displaySeconds \notin alerted1
        IN  [game |-> [prevState EXCEPT ![activePlayer] = result.newState],
             alerted |-> IF beep THEN alerted1 \cup {displaySeconds}
                         ELSE alerted1,
             entered |-> entered1,
             prevDisplayMs |-> displayMs,
             result |-> flags,
             cues |-> IF beep THEN cues2 \cup {"tick"} ELSE cues2]

\* variant: expiry is handled before the entry into overtime
gameLoopUpdateExpiryFirst(prevState, cfg, delta, alerted, entered, prevDisplayMs) ==
    IF prevState.status # "running"
    THEN [game |-> prevState, alerted |-> alerted, entered |-> entered,
          prevDisplayMs |-> prevDisplayMs, result |-> Null, cues |-> {}]
    ELSE
    LET activePlayer == prevState.activePlayer
        result == tick(prevState[activePlayer], cfg, delta)
        flags == [expired |-> result.expired,
                  enteredOvertime |-> result.enteredOvertime]
        firstEntry == result.enteredOvertime /\ activePlayer \notin entered
        entered1 == IF firstEntry THEN entered \cup {activePlayer}
                    ELSE entered
        cues1 == IF firstEntry THEN {"alert"} ELSE {}
    IN  IF result.expired
        THEN [game |-> [prevState EXCEPT ![activePlayer] = result.newState,
                                         !.status = "ended",
                                         !.winner = Opponent(activePlayer)],
              alerted |-> alerted, entered |-> entered,
              prevDisplayMs |-> prevDisplayMs, result |-> flags,
              cues |-> {"gong"}]
        ELSE
        LET displayMs == getDisplayTime(result.newState)
            displaySeconds == MathCeilDiv(displayMs, 1000)
            increased == /\ displayMs > prevDisplayMs + 1000
                         /\ prevDisplayMs > 0
            alerted1 == IF increased THEN {} ELSE alerted
            cues2 == IF increased /\ ~result.enteredOvertime
                     THEN cues1 \cup {"alert"} ELSE cues1
            beep == /\ displaySeconds <= 5
                    /\ displaySeconds >= 1
                    /\ displaySeconds \notin alerted1
        IN  [game |-> [prevState EXCEPT ![activePlayer] = result.newState],
             alerted |-> IF beep THEN alerted1 \cup {displaySeconds}
                         ELSE alerted1,
             entered |-> entered1,
             prevDisplayMs |-> displayMs,
             result |-> flags,
             cues |-> IF beep THEN cues2 \cup {"tick"} ELSE cues2]

\* the state update of gameLoop, with the refs it reads and writes:
\* alerted = lowTimeAlertedRef, entered = enteredOvertimeRef
gameLoopUpdate(prevState, cfg, delta, alerted, entered, prevDisplayMs) ==
    IF prevState.status # "running"
    THEN [game |-> prevState, alerted |-> alerted, entered |-> entered,
          prevDisplayMs |-> prevDisplayMs, result |-> Null, cues |-> {}]
    ELSE
    LET activePlayer == prevState.activePlayer
        result == tick(prevState[activePlayer], cfg, delta)
        flags == [expired |-> result.expired,
                  enteredOvertime |-> result.enteredOvertime]
        firstEntry == result.enteredOvertime /\ activePlayer \notin entered
        entered1 == IF firstEntry THEN entered \cup {activePlayer}
                    ELSE entered
        cues1 == IF firstEntry THEN {"alert"} ELSE {}
    IN  IF result.expired
        THEN [game |-> [prevState EXCEPT ![activePlayer] = result.newState,
                                         !.status = "ended",
                                         !.winner = Opponent(activePlayer)],
              alerted |-> alerted, entered |-> entered1,
              prevDisplayMs |-> prevDisplayMs, result |-> flags,
              cues |-> cues1 \cup {"gong"}]
        ELSE
        LET displayMs == getDisplayTime(result.newState)
            displaySeconds == MathCeilDiv(displayMs, 1000)
            increased == /\ displayMs > prevDisplayMs + 1000
                         /\ prevDisplayMs > 0
            alerted1 == IF increased THEN {} ELSE alerted
            cues2 == IF increased /\ ~result.enteredOvertime
                     THEN cues1 \cup {"alert"} ELSE cues1
            beep == /\ displaySeconds <= 5
                    /\ displaySeconds >= 1
                    /\ displaySeconds \notin alerted1
        IN  [game |-> [prevState EXCEPT ![activePlayer] = result.newState],
             alerted |-> IF beep THEN alerted1 \cup {displaySeconds}
                         ELSE alerted1,
             entered |-> entered1,
             prevDisplayMs |-> displayMs,
             result |-> flags,
             cues |-> IF beep THEN cues2 \cup {"tick"} ELSE cues2]

\* variant: the move is applied to the clock of the player who becomes active
switchTurnUpdateMovesOpponent(prevState, cfg) ==
    LET activePlayer == prevState.activePlayer
        other == Opponent(activePlayer)
    IN  [prevState EXCEPT
            ![other] = onMove(prevState[other], cfg),
            !.activePlayer = other]

\* the state update of switchTurn, for a state with status running
switchTurnUpdate(prevState, cfg) ==
    LET activePlayer == prevState.activePlayer
    IN  [prevState EXCEPT
            ![activePlayer] = onMove(prevState[activePlayer], cfg),
            !.activePlayer = Opponent(activePlayer)]

\* variant: pause without the status test
pauseUpdateUnguarded(prev) ==
    [prev EXCEPT !.status = "paused"]

pauseUpdate(prev) ==
    IF prev.status = "running"
    THEN [prev EXCEPT !.status = "paused"]
    ELSE prev

resumeUpdate(prev) ==
    IF prev.status = "paused"
    THEN [prev EXCEPT !.status = "running"]
    ELSE prev

startUpdate(prev, firstActivePlayer) ==
    IF prev.status = "waiting"
    THEN [prev EXCEPT !.status = "running",
                      !.activePlayer = firstActivePlayer]
    ELSE prev

GameInit ==
    /\ config \in GameConfigs
    /\ game = createInitialGameState(config)
    /\ rendered = View(game)
    /\ pending = EmptyBag
    /\ lastTickSet = FALSE
    /\ frameScheduled = FALSE
    /\ lowTimeAlertedRef = {}
    /\ enteredOvertimeRef = {}
    /\ prevDisplayMsRef = 0
    /\ gop = "init"
    /\ frameResult = Null
    /\ cues = {}
    /\ sinceLastTick = NothingSince
    /\ EngineIdle
    /\ FormatIdle
    /\ WakeIdle

\* Wall-clock time passes before an operation: the time since lastTickRef
\* was assigned then holds time in the status the game had, and time of
\* the other player's turn once the turn has changed (turnChanged)
Elapse(turnChanged) ==
    IF lastTickSet
    THEN [notRunning |-> sinceLastTick.notRunning \/ game.status # "running",
          otherTurn |-> sinceLastTick.otherTurn \/ turnChanged]
    ELSE NothingSince

\* handleTap while the rendered status is waiting: start(the other player)
TapToStart ==
    \E player \in Player :
        /\ rendered.status = "waiting"
        /\ BagCardinality(pending) < MaxPendingCalls
        /\ pending' = Await(StartCall(Opponent(player)))
        /\ gop' = "tap"
        /\ frameResult' = Null
        /\ cues' = {}
        /\ sinceLastTick' = Elapse(FALSE)
        /\ UNCHANGED <<config, engineVars, formatVars, wakeVars, game,
                       rendered, refVars>>

\* handleTap on the clock of the rendered active player: switchTurn()
TapToSwitch ==
    \E player \in Player :
        /\ rendered.status = "running"
        /\ rendered.activePlayer = player
        /\ BagCardinality(pending) < MaxPendingCalls
        /\ game.black.moves + game.white.moves
               + PendingSwitchTurns < MaxGameTurns
        /\ pending' = Await(SwitchTurnCall(player))
        /\ gop' = "tap"
        /\ frameResult' = Null
        /\ cues' = {}
        /\ sinceLastTick' = Elapse(FALSE)
        /\ UNCHANGED <<config, engineVars, formatVars, wakeVars, game,
                       rendered, refVars>>

\* start(firstActivePlayer) after initAudio() has resolved
Start ==
    \E player \in Player :
        /\ BagIn(StartCall(player), pending)
        /\ pending' = Resolve(StartCall(player))
        /\ game' = startUpdate(game, player)
        /\ gop' = "start"
        /\ frameResult' = Null
        /\ cues' = {"click"}
        /\ sinceLastTick' = Elapse(FALSE)
        /\ UNCHANGED <<config, engineVars, formatVars, wakeVars, rendered,
                       refVars>>

\* switchTurn() after initAudio() has resolved
SwitchTurn ==
    /\ \E player \in Player :
           /\ BagIn(SwitchTurnCall(player), pending)
           /\ pending' = Resolve(SwitchTurnCall(player))
    /\ gop' = "switchTurn"
    /\ frameResult' = Null
    /\ IF game.status # "running"
       THEN /\ cues' = {}
            /\ UNCHANGED <<game, lowTimeAlertedRef, prevDisplayMsRef>>
       ELSE /\ game' = switchTurnUpdate(game, config)
            /\ lowTimeAlertedRef' = {}
            /\ prevDisplayMsRef' = 0
            /\ cues' = {"click"}
    /\ sinceLastTick' = Elapse(game.status = "running")
    /\ UNCHANGED <<config, engineVars, formatVars, wakeVars, rendered,
                   lastTickSet, frameScheduled, enteredOvertimeRef>>

\* handlePauseResume while the rendered status is running: pause()
Pause ==
    /\ rendered.status = "running"
    /\ game' = pauseUpdate(game)
    /\ gop' = "pause"
    /\ frameResult' = Null
    /\ cues' = {}
    /\ sinceLastTick' = Elapse(FALSE)
    /\ UNCHANGED <<config, engineVars, formatVars, wakeVars, rendered, pending,
                   refVars>>

\* handlePauseResume while the rendered status is paused: resume()
PressResume ==
    /\ rendered.status = "paused"
    /\ BagCardinality(pending) < MaxPendingCalls
    /\ pending' = Await(ResumeCall)
    /\ gop' = "press"
    /\ frameResult' = Null
    /\ cues' = {}
    /\ sinceLastTick' = Elapse(FALSE)
    /\ UNCHANGED <<config, engineVars, formatVars, wakeVars, game, rendered,
                   refVars>>

\* resume() after initAudio() has resolved
Resume ==
    /\ BagIn(ResumeCall, pending)
    /\ pending' = Resolve(ResumeCall)
    /\ game' = resumeUpdate(game)
    /\ gop' = "resume"
    /\ frameResult' = Null
    /\ cues' = {}
    /\ sinceLastTick' = Elapse(FALSE)
    /\ UNCHANGED <<config, engineVars, formatVars, wakeVars, rendered,
                   refVars>>

\* handleRematch (offered while the rendered status is paused or ended):
\* reset()
Reset ==
    /\ rendered.status \in {"paused", "ended"}
    /\ lowTimeAlertedRef' = {}
    /\ enteredOvertimeRef' = {}
    /\ prevDisplayMsRef' = 0
    /\ game' = createInitialGameState(config)
    /\ gop' = "reset"
    /\ frameResult' = Null
    /\ cues' = {}
    /\ sinceLastTick' = Elapse(FALSE)
    /\ UNCHANGED <<config, engineVars, formatVars, wakeVars, rendered, pending,
                   lastTickSet, frameScheduled>>

\* one call of gameLoop by requestAnimationFrame
Frame ==
    /\ frameScheduled
    /\ gop' = "frame"
    /\ IF rendered.status # "running"
       THEN /\ frameScheduled' = FALSE
            /\ frameResult' = Null
            /\ cues' = {}
            /\ sinceLastTick' = Elapse(FALSE)
            /\ UNCHANGED <<game, lastTickSet, lowTimeAlertedRef,
                           enteredOvertimeRef, prevDisplayMsRef>>
       ELSE IF ~lastTickSet
       THEN \* first frame: lastTick becomes the timestamp, deltaMs is 0
            /\ lastTickSet' = TRUE
            /\ frameResult' = Null
            /\ cues' = {}
            /\ sinceLastTick' = NothingSince
            /\ UNCHANGED <<game, frameScheduled, lowTimeAlertedRef,
                           enteredOvertimeRef, prevDisplayMsRef>>
       ELSE \E delta \in FrameDeltas :
            \E update \in {gameLoopUpdate(game, config, delta,
                              lowTimeAlertedRef, enteredOvertimeRef,
                              prevDisplayMsRef)} :
                /\ game' = update.game
                /\ lowTimeAlertedRef' = update.alerted
                /\ enteredOvertimeRef' = update.entered
                /\ prevDisplayMsRef' = update.prevDisplayMs
                /\ frameResult' = update.result
                /\ cues' = update.cues
                /\ sinceLastTick' = NothingSince
                /\ UNCHANGED <<lastTickSet, frameScheduled>>
    /\ UNCHANGED <<config, engineVars, formatVars, wakeVars, rendered,
                   pending>>

\* React commits a render of the current state: gameStateRef and the
\* handlers see it, and the effect on gameState.status runs if it changed
Render ==
    /\ rendered # View(game)
    /\ rendered' = View(game)
    /\ IF game.status = rendered.status
       THEN /\ sinceLastTick' = Elapse(FALSE)
            /\ UNCHANGED <<lastTickSet, frameScheduled>>
       ELSE IF game.status = "running"
       THEN /\ lastTickSet' = FALSE
            /\ frameScheduled' = TRUE
            /\ sinceLastTick' = NothingSince
       ELSE /\ frameScheduled' = FALSE
            /\ sinceLastTick' = Elapse(FALSE)
            /\ UNCHANGED lastTickSet
    /\ gop' = "render"
    /\ frameResult' = Null
    /\ cues' = {}
    /\ UNCHANGED <<config, engineVars, formatVars, wakeVars, game, pending,
                   lowTimeAlertedRef, enteredOvertimeRef, prevDisplayMsRef>>

GameNext ==
    \/ TapToStart
    \/ TapToSwitch
    \/ Start
    \/ SwitchTurn
    \/ Pause
    \/ PressResume
    \/ Resume
    \/ Reset
    \/ Frame
    \/ Render

GameSpec == GameInit /\ [][GameNext]_vars

\* The driver with frames that keep arriving while the loop is scheduled
\* (requestAnimationFrame calls gameLoop again and again) and renders that
\* are committed whenever the state differs from the rendered one (React
\* commits every state update).  The players space their taps out: a tap
\* or press is made when no earlier call awaits initAudio(), and a game
\* sees one move; calls, frames and renders interleave as in GameSpec.
Calm == pending = EmptyBag

CalmTapToStart == Calm /\ TapToStart

FirstTapToSwitch == Calm /\ MovesMade(game) = 0 /\ TapToSwitch

CalmPressResume == Calm /\ PressResume

GameLiveNext ==
    \/ CalmTapToStart
    \/ FirstTapToSwitch
    \/ Start
    \/ SwitchTurn
    \/ Pause
    \/ CalmPressResume
    \/ Resume
    \/ Reset
    \/ Frame
    \/ Render

GameLiveSpec ==
    /\ GameInit
    /\ [][GameLiveNext]_vars
    /\ WF_vars(Frame)
    /\ WF_vars(Render)

----------------------------------------------------------------------------
(* Screen wake lock: src/hooks/useWakeLock.ts, called by GameBoard with    *)
(* active = (gameState.status === 'running').  The requests and releases   *)
(* are asynchronous: a call is in flight from its start to the step that   *)
(* resumes the hook after the await.                                       *)

MaxSentinels == 3
MaxPendingReleases == 2

\* the n-th WakeLockSentinel the platform hands out
Sentinel(n) == [type |-> "WakeLockSentinel", id |-> n]

\* n calls of releaseWakeLock in a row, each up to its await: release() is
\* called on the sentinel in wakeLockRef, if there is one
releaseWakeLock(n) ==
    IF wakeLockRef # Null
    THEN /\ BagCardinality(releases) + n <= MaxPendingReleases
         /\ held' = held \ {wakeLockRef}
         /\ releases' = releases (+) [s \in {wakeLockRef} |-> n]
    ELSE UNCHANGED <<held, releases>>

\* requestWakeLock up to its await
requestWakeLock ==
    /\ issued + requests < MaxSentinels
    /\ requests' = requests + 1

WakeInit ==
    /\ config = Null
    /\ WakeIdle
    /\ EngineIdle
    /\ FormatIdle
    /\ GameIdle

\* a render with active true: the cleanup of the previous effect calls
\* releaseWakeLock, the effect calls requestWakeLock
Activate ==
    /\ ~active
    /\ active' = TRUE
    /\ releaseWakeLock(1)
    /\ requestWakeLock
    /\ UNCHANGED <<visibilityState, wakeLockRef, issued>>
    /\ UNCHANGED <<config, engineVars, formatVars, gameVars>>

\* a render with active false: the cleanup of the previous effect and the
\* effect itself call releaseWakeLock
Deactivate ==
    /\ active
    /\ active' = FALSE
    /\ releaseWakeLock(2)
    /\ UNCHANGED <<visibilityState, wakeLockRef, issued, requests>>
    /\ UNCHANGED <<config, engineVars, formatVars, gameVars>>

\* navigator.wakeLock.request settles: with a sentinel that is stored in
\* wakeLockRef, or with a rejection (page not visible) that is caught
Requested ==
    /\ requests > 0
    /\ requests' = requests - 1
    /\ IF visibilityState = "visible"
       THEN /\ issued' = issued + 1
            /\ held' = held \cup {Sentinel(issued + 1)}
            /\ wakeLockRef' = Sentinel(issued + 1)
       ELSE UNCHANGED <<issued, held, wakeLockRef>>
    /\ UNCHANGED <<active, visibilityState, releases>>
    /\ UNCHANGED <<config, engineVars, formatVars, gameVars>>

\* release() settles: releaseWakeLock clears wakeLockRef
Released ==
    \E sentinel \in {Sentinel(n) : n \in 1..MaxSentinels} :
        /\ BagIn(sentinel, releases)
        /\ releases' = releases (-) SetToBag({sentinel})
        /\ wakeLockRef' = Null
        /\ UNCHANGED <<active, visibilityState, held, issued, requests>>
        /\ UNCHANGED <<config, engineVars, formatVars, gameVars>>

\* the page is hidden: the platform releases the screen wake locks, and
\* handleVisibilityChange does nothing
Hide ==
    /\ visibilityState = "visible"
    /\ visibilityState' = "hidden"
    /\ held' = {}
    /\ UNCHANGED <<active, wakeLockRef, issued, requests, releases>>
    /\ UNCHANGED <<config, engineVars, formatVars, gameVars>>

\* the page is visible again: handleVisibilityChange calls requestWakeLock
\* if active
Show ==
    /\ visibilityState = "hidden"
    /\ visibilityState' = "visible"
    /\ IF active THEN requestWakeLock ELSE UNCHANGED requests
    /\ UNCHANGED <<active, wakeLockRef, held, issued, releases>>
    /\ UNCHANGED <<config, engineVars, formatVars, gameVars>>

WakeLockNext ==
    \/ Activate
    \/ Deactivate
    \/ Requested
    \/ Released
    \/ Hide
    \/ Show

WakeLockSpec == WakeInit /\ [][WakeLockNext]_vars

----------------------------------------------------------------------------
(* Vocabulary of the properties *)

Min(a, b) == IF a < b THEN a ELSE b

PeriodMs == config.periodTimeSeconds * MsPerSecond

\* the state has time left in its current phase
HasTimeLeft(st) ==
    IF ~st.isInOvertime
    THEN st.mainTimeRemainingMs > 0
    ELSE \/ /\ st.overtime.type = "byoyomi"
            /\ st.overtime.periodsRemaining > 0
            /\ st.overtime.periodTimeRemainingMs > 0
         \/ /\ st.overtime.type = "canadian"
            /\ st.overtime.overtimeRemainingMs > 0

\* the last call was a tick from main time that used up the main time
CrossedIntoOvertime ==
    /\ op = "tick"
    /\ ~input.isInOvertime
    /\ deltaMs >= input.mainTimeRemainingMs

Overflow == deltaMs - input.mainTimeRemainingMs

\* the configured value of the overtime counter
FreshCounterMs ==
    IF config.type = "byoyomi"
    THEN config.periodTimeSeconds * MsPerSecond
    ELSE config.overtimeSeconds * MsPerSecond

\* the overtime counter of a state in byo-yomi or Canadian overtime
OvertimeCounterMs(st) ==
    IF st.overtime.type = "byoyomi"
    THEN st.overtime.periodTimeRemainingMs
    ELSE st.overtime.overtimeRemainingMs

\* the fresh overtime state of the configuration, written out field by field
FreshOvertime ==
    IF config.type = "byoyomi"
    THEN [type |-> "byoyomi",
          periodsRemaining |-> config.periods,
          periodTimeRemainingMs |-> config.periodTimeSeconds * MsPerSecond]
    ELSE [type |-> "canadian",
          stonesRemaining |-> config.stones,
          overtimeRemainingMs |-> config.overtimeSeconds * MsPerSecond]

----------------------------------------------------------------------------
(* C1 as stated: for every configuration and every player state,           *)
(* tick(state, config, 0) returns the input state, expired = false and     *)
(* enteredOvertime = false.                                                *)
C1_TickZeroIsNoOp ==
    (op = "tick" /\ deltaMs = 0) =>
        /\ state = input
        /\ ~expired
        /\ ~enteredOvertime

(* C1 amended: for every configuration and every player state that has     *)
(* time left in its current phase (main time above 0, or an overtime       *)
(* counter above 0 with, under byo-yomi, periods remaining),               *)
(* tick(state, config, 0) returns the input state, expired = false and     *)
(* enteredOvertime = false.                                                *)
C1_TickZeroIsNoOpWithTimeLeft ==
    (op = "tick" /\ deltaMs = 0 /\ HasTimeLeft(input)) =>
        /\ state = input
        /\ ~expired
        /\ ~enteredOvertime

C1_Witness ==
    /\ op = "tick"
    /\ deltaMs = 0
    /\ input.isInOvertime
    /\ HasTimeLeft(input)
    /\ input.moves > 0
    /\ state = input

(* C2 as stated: under byo-yomi or Canadian, for every main-time state and *)
(* every delta that crosses out of main time, one tick leaves the overtime *)
(* counter at its fresh configured value minus                             *)
(* overflow = deltaMs - mainTimeRemainingMs_before.  Stated here on the    *)
(* configurations that have overtime to spend (byo-yomi with periods >= 1) *)
(* and on states with main time left before the tick.                      *)
C2_OverflowConservation ==
    ( /\ CrossedIntoOvertime
      /\ config.type \in {"byoyomi", "canadian"}
      /\ (config.type = "byoyomi" => config.periods >= 1)
      /\ input.mainTimeRemainingMs > 0 ) =>
        OvertimeCounterMs(state) = FreshCounterMs - Overflow

(* C2 amended: under byo-yomi (periods >= 1) or Canadian, for every        *)
(* main-time state and every delta that crosses out of main time with an   *)
(* overflow smaller than the fresh overtime counter, one tick leaves the   *)
(* counter at its fresh value minus the overflow, in the same call, with   *)
(* the periods (stones) still at their configured number and expired =     *)
(* false.                                                                  *)
C2_OverflowConservationWithinFirstPeriod ==
    ( /\ CrossedIntoOvertime
      /\ config.type \in {"byoyomi", "canadian"}
      /\ (config.type = "byoyomi" => config.periods >= 1)
      /\ Overflow < FreshCounterMs ) =>
        /\ OvertimeCounterMs(state) = FreshCounterMs - Overflow
        /\ state.overtime = IF config.type = "byoyomi"
                            THEN [FreshOvertime EXCEPT
                                    !.periodTimeRemainingMs = @ - Overflow]
                            ELSE [FreshOvertime EXCEPT
                                    !.overtimeRemainingMs = @ - Overflow]
        /\ ~expired

C2_Witness ==
    /\ CrossedIntoOvertime
    /\ config.type = "byoyomi"
    /\ config.periods >= 1
    /\ input.mainTimeRemainingMs > 0
    /\ Overflow > 0
    /\ Overflow < FreshCounterMs
    /\ state.overtime.periodTimeRemainingMs = FreshCounterMs - Overflow

(* C3: a byo-yomi overtime state with n >= 1 periods and period time t,    *)
(* 0 < t <= P, ticked by deltaMs >= t, loses exactly                       *)
(* k = min(n, floor((deltaMs - t) / P) + 1) periods in that call; if       *)
(* periods remain the period time is t - deltaMs + k * P (a full P added   *)
(* per consumed period), and if none remain it is 0 (no replenishment).    *)
C3_PeriodCascade ==
    ( /\ op = "tick"
      /\ config.type = "byoyomi"
      /\ input.isInOvertime
      /\ input.overtime.periodsRemaining >= 1
      /\ input.overtime.periodTimeRemainingMs > 0
      /\ input.overtime.periodTimeRemainingMs <= PeriodMs
      /\ deltaMs >= input.overtime.periodTimeRemainingMs ) =>
        LET n == input.overtime.periodsRemaining
            t == input.overtime.periodTimeRemainingMs
            k == Min(n, ((deltaMs - t) \div PeriodMs) + 1)
        IN  /\ state.overtime.periodsRemaining = n - k
            /\ state.overtime.periodTimeRemainingMs =
                   IF k < n THEN t - deltaMs + k * PeriodMs ELSE 0

C3_Witness ==
    /\ op = "tick"
    /\ config.type = "byoyomi"
    /\ input.isInOvertime
    /\ input.overtime.periodTimeRemainingMs > 0
    /\ input.overtime.periodTimeRemainingMs < PeriodMs
    /\ deltaMs > input.overtime.periodTimeRemainingMs + PeriodMs
    /\ state.overtime.periodsRemaining = input.overtime.periodsRemaining - 2
    /\ state.overtime.periodsRemaining > 0
    /\ state.overtime.periodTimeRemainingMs < PeriodMs

(* C4: under byo-yomi a tick reports expired = true exactly when the       *)
(* returned state has periodsRemaining = 0, and then its                   *)
(* periodTimeRemainingMs is 0; while periodsRemaining is above 0 the tick  *)
(* reports expired = false.                                                *)
C4_ExpiredIffNoPeriods ==
    (op = "tick" /\ config.type = "byoyomi") =>
        /\ expired <=> ( /\ state.overtime.type = "byoyomi"
                         /\ state.overtime.periodsRemaining = 0 )
        /\ expired => state.overtime.periodTimeRemainingMs = 0

C4_Witness ==
    /\ op = "tick"
    /\ config.type = "byoyomi"
    /\ input.isInOvertime
    /\ input.overtime.periodsRemaining >= 2
    /\ expired
    /\ state.overtime.periodsRemaining = 0
    /\ state.overtime.periodTimeRemainingMs = 0

(* C5: under Fischer a tick from main time with deltaMs >=                 *)
(* mainTimeRemainingMs returns expired = true, enteredOvertime = true,     *)
(* mainTimeRemainingMs = 0, isInOvertime = true and no overtime state; no  *)
(* overtime state is ever created for Fischer.                             *)
C5_FischerExpiresAtMainTimeEnd ==
    config.type = "fischer" =>
        /\ state.overtime = Null
        /\ CrossedIntoOvertime =>
              /\ expired
              /\ enteredOvertime
              /\ state.mainTimeRemainingMs = 0
              /\ state.isInOvertime

C5_Witness ==
    /\ config.type = "fischer"
    /\ CrossedIntoOvertime
    /\ input.moves > 0
    /\ input.mainTimeRemainingMs > 0
    /\ expired
    /\ state.overtime = Null

(* C6: under byo-yomi (periods >= 1) or Canadian a tick from main time     *)
(* with deltaMs >= mainTimeRemainingMs returns mainTimeRemainingMs = 0,    *)
(* isInOvertime = true, enteredOvertime = true and an overtime state of    *)
(* the configuration's variant; when deltaMs equals the main time left,    *)
(* that state is the fresh one and expired = false.                        *)
C6_EntersFreshOvertime ==
    ( /\ CrossedIntoOvertime
      /\ config.type \in {"byoyomi", "canadian"}
      /\ (config.type = "byoyomi" => config.periods >= 1) ) =>
        /\ state.mainTimeRemainingMs = 0
        /\ state.isInOvertime
        /\ enteredOvertime
        /\ state.overtime.type = config.type
        /\ (Overflow = 0) => (state.overtime = FreshOvertime /\ ~expired)

C6_Witness ==
    /\ CrossedIntoOvertime
    /\ config.type = "canadian"
    /\ input.mainTimeRemainingMs > 0
    /\ Overflow = 0
    /\ state.overtime = FreshOvertime
    /\ ~expired

(* C7: for every configuration and every state not in overtime, if         *)
(* mainTimeRemainingMs - deltaMs > 0 the tick returns the input state with *)
(* mainTimeRemainingMs reduced by exactly deltaMs (overtime, isInOvertime  *)
(* and moves unchanged), expired = false and enteredOvertime = false.      *)
C7_MainTimeDecrement ==
    ( /\ op = "tick"
      /\ ~input.isInOvertime
      /\ input.mainTimeRemainingMs - deltaMs > 0 ) =>
        /\ state.mainTimeRemainingMs = input.mainTimeRemainingMs - deltaMs
        /\ state.overtime = input.overtime
        /\ state.isInOvertime = input.isInOvertime
        /\ state.moves = input.moves
        /\ ~expired
        /\ ~enteredOvertime

C7_Witness ==
    /\ op = "tick"
    /\ ~input.isInOvertime
    /\ deltaMs > 0
    /\ input.mainTimeRemainingMs - deltaMs > 0
    /\ state.mainTimeRemainingMs = input.mainTimeRemainingMs - deltaMs

(* C8: in Canadian overtime a tick subtracts deltaMs from                  *)
(* overtimeRemainingMs; a result <= 0 is clamped to 0 with expired = true, *)
(* otherwise expired = false; stonesRemaining is unchanged for any delta.  *)
C8_CanadianTick ==
    ( /\ op = "tick"
      /\ config.type = "canadian"
      /\ input.isInOvertime ) =>
        LET left == input.overtime.overtimeRemainingMs - deltaMs
        IN  /\ state.overtime.overtimeRemainingMs =
                   IF left <= 0 THEN 0 ELSE left
            /\ expired <=> left <= 0
            /\ state.overtime.stonesRemaining = input.overtime.stonesRemaining

C8_Witness ==
    /\ op = "tick"
    /\ config.type = "canadian"
    /\ input.isInOvertime
    /\ input.overtime.overtimeRemainingMs > 0
    /\ input.overtime.stonesRemaining < config.stones
    /\ deltaMs > input.overtime.overtimeRemainingMs
    /\ expired
    /\ state.overtime.overtimeRemainingMs = 0

(* C9: Canadian onMove in overtime takes one stone off stonesRemaining; if *)
(* the result is <= 0 the same call sets stonesRemaining to config.stones  *)
(* and overtimeRemainingMs to config.overtimeSeconds * 1000; otherwise it  *)
(* stores the decremented stonesRemaining and leaves overtimeRemainingMs   *)
(* unchanged.                                                              *)
C9_CanadianOnMove ==
    ( /\ op = "onMove"
      /\ config.type = "canadian"
      /\ input.isInOvertime ) =>
        LET stones == input.overtime.stonesRemaining - 1
        IN  IF stones <= 0
            THEN /\ state.overtime.stonesRemaining = config.stones
                 /\ state.overtime.overtimeRemainingMs =
                        config.overtimeSeconds * MsPerSecond
            ELSE /\ state.overtime.stonesRemaining = stones
                 /\ state.overtime.overtimeRemainingMs =
                        input.overtime.overtimeRemainingMs

C9_Witness ==
    /\ op = "onMove"
    /\ config.type = "canadian"
    /\ config.stones >= 2
    /\ input.isInOvertime
    /\ input.overtime.stonesRemaining = 1
    /\ input.overtime.overtimeRemainingMs > 0
    /\ input.overtime.overtimeRemainingMs < config.overtimeSeconds * MsPerSecond
    /\ state.overtime.stonesRemaining = config.stones
    /\ state.overtime.overtimeRemainingMs = config.overtimeSeconds * MsPerSecond

(* C10: byo-yomi onMove in overtime sets periodTimeRemainingMs to the full *)
(* period duration config.periodTimeSeconds * 1000 and leaves              *)
(* periodsRemaining unchanged, whatever period time was left.              *)
C10_ByoyomiOnMove ==
    ( /\ op = "onMove"
      /\ config.type = "byoyomi"
      /\ input.isInOvertime ) =>
        /\ state.overtime.periodTimeRemainingMs = PeriodMs
        /\ state.overtime.periodsRemaining = input.overtime.periodsRemaining

C10_Witness ==
    /\ op = "onMove"
    /\ config.type = "byoyomi"
    /\ input.isInOvertime
    /\ input.overtime.periodsRemaining >= 1
    /\ input.overtime.periodsRemaining < config.periods
    /\ input.overtime.periodTimeRemainingMs > 0
    /\ input.overtime.periodTimeRemainingMs < PeriodMs
    /\ state.overtime.periodTimeRemainingMs = PeriodMs
    /\ state.overtime.periodsRemaining = input.overtime.periodsRemaining

(* C11: under Fischer, onMove adds exactly incrementSeconds * 1000 to      *)
(* mainTimeRemainingMs when the player is not in overtime; once            *)
(* isInOvertime is true no onMove call alters mainTimeRemainingMs.         *)
C11_FischerIncrement ==
    (op = "onMove" /\ config.type = "fischer") =>
        /\ ~input.isInOvertime =>
               state.mainTimeRemainingMs =
                   input.mainTimeRemainingMs
                       + config.incrementSeconds * MsPerSecond
        /\ input.isInOvertime =>
               state.mainTimeRemainingMs = input.mainTimeRemainingMs

C11_Witness ==
    /\ op = "onMove"
    /\ config.type = "fischer"
    /\ config.incrementSeconds >= 1
    /\ input.isInOvertime
    /\ input.moves >= 1
    /\ state.mainTimeRemainingMs = input.mainTimeRemainingMs

(* C12: after any interleaving of tick and onMove calls from the initial   *)
(* state, moves equals the number of onMove calls: onMove adds exactly 1   *)
(* in every scheme and state, tick never changes moves.                    *)
C12_MovesCountsOnMoveCalls ==
    /\ state.moves = onMoveCalls
    /\ op = "onMove" => state.moves = input.moves + 1
    /\ op = "tick" => state.moves = input.moves

C12_Witness ==
    /\ op = "tick"
    /\ input.isInOvertime
    /\ onMoveCalls >= 2
    /\ state.moves = onMoveCalls

(* C13: onMove in main time under byo-yomi or Canadian leaves              *)
(* mainTimeRemainingMs, overtime and isInOvertime as they were (only moves *)
(* changes).                                                               *)
C13_MainTimeMoveLeavesTime ==
    ( /\ op = "onMove"
      /\ config.type \in {"byoyomi", "canadian"}
      /\ ~input.isInOvertime ) =>
        /\ state.mainTimeRemainingMs = input.mainTimeRemainingMs
        /\ state.overtime = input.overtime
        /\ state.isInOvertime = input.isInOvertime
        /\ state = [input EXCEPT !.moves = @ + 1]

C13_Witness ==
    /\ op = "onMove"
    /\ config.type \in {"byoyomi", "canadian"}
    /\ ~input.isInOvertime
    /\ input.mainTimeRemainingMs > 0
    /\ input.mainTimeRemainingMs < config.mainTimeSeconds * MsPerSecond
    /\ state.mainTimeRemainingMs = input.mainTimeRemainingMs

(* C14: in every state reachable by tick and onMove under a fixed          *)
(* configuration, isInOvertime implies mainTimeRemainingMs = 0; under      *)
(* byo-yomi and Canadian the overtime state is present, of the             *)
(* configuration's variant, exactly when isInOvertime is true; under       *)
(* Fischer overtime is always absent.                                      *)
C14_OvertimeShape ==
    /\ state.isInOvertime => state.mainTimeRemainingMs = 0
    /\ config.type \in {"byoyomi", "canadian"} =>
           /\ state.isInOvertime <=> state.overtime # Null
           /\ state.overtime # Null => state.overtime.type = config.type
    /\ config.type = "fischer" => state.overtime = Null

C14_Witness ==
    /\ op = "onMove"
    /\ config.type = "byoyomi"
    /\ state.isInOvertime
    /\ state.overtime.type = "byoyomi"
    /\ state.mainTimeRemainingMs = 0
    /\ config.mainTimeSeconds > 0

(* C15: in every state returned by tick or onMove after any sequence of    *)
(* calls from an initial state, mainTimeRemainingMs, periodsRemaining,     *)
(* periodTimeRemainingMs, stonesRemaining and overtimeRemainingMs are all  *)
(* >= 0, however large the delta.                                          *)
C15_CountersNonNegative ==
    /\ state.mainTimeRemainingMs >= 0
    /\ state.overtime.type = "byoyomi" =>
           /\ state.overtime.periodsRemaining >= 0
           /\ state.overtime.periodTimeRemainingMs >= 0
    /\ state.overtime.type = "canadian" =>
           /\ state.overtime.stonesRemaining >= 0
           /\ state.overtime.overtimeRemainingMs >= 0

C15_Witness ==
    /\ op = "tick"
    /\ config.type = "canadian"
    /\ ~input.isInOvertime
    /\ input.mainTimeRemainingMs > 0
    /\ deltaMs > input.mainTimeRemainingMs
                     + config.overtimeSeconds * MsPerSecond
    /\ state.mainTimeRemainingMs = 0
    /\ state.overtime.overtimeRemainingMs = 0

(* C16: getDisplayTime returns mainTimeRemainingMs when the player is not  *)
(* in overtime, periodTimeRemainingMs in byo-yomi overtime,                *)
(* overtimeRemainingMs in Canadian overtime, and the exhausted (zero)      *)
(* mainTimeRemainingMs for Fischer in overtime.                            *)
C16_DisplayTime ==
    /\ ~state.isInOvertime =>
           getDisplayTime(state) = state.mainTimeRemainingMs
    /\ (state.isInOvertime /\ config.type = "byoyomi") =>
           getDisplayTime(state) = state.overtime.periodTimeRemainingMs
    /\ (state.isInOvertime /\ config.type = "canadian") =>
           getDisplayTime(state) = state.overtime.overtimeRemainingMs
    /\ (state.isInOvertime /\ config.type = "fischer") =>
           /\ getDisplayTime(state) = state.mainTimeRemainingMs
           /\ getDisplayTime(state) = 0

C16_Witness ==
    /\ config.type = "canadian"
    /\ state.isInOvertime
    /\ state.overtime.overtimeRemainingMs > 0
    /\ state.overtime.overtimeRemainingMs
           < config.overtimeSeconds * MsPerSecond
    /\ getDisplayTime(state) = state.overtime.overtimeRemainingMs

\* decimal digits and numbers below 100, written out
Digit(d) ==
    CASE d = 0 -> "0" [] d = 1 -> "1" [] d = 2 -> "2" [] d = 3 -> "3"
      [] d = 4 -> "4" [] d = 5 -> "5" [] d = 6 -> "6" [] d = 7 -> "7"
      [] d = 8 -> "8" [] d = 9 -> "9"

TwoDigits(n) == Digit(n \div 10) \o Digit(n % 10)

Decimal(n) == IF n < 10 THEN Digit(n) ELSE TwoDigits(n)

\* the least whole number of seconds covering millis, not below 0
DisplayedSeconds(millis) ==
    LET covering == CHOOSE sec \in -10..((MaxFormatHours + 1) * 3600) :
                        /\ sec * 1000 >= millis
                        /\ (sec - 1) * 1000 < millis
    IN  IF covering < 0 THEN 0 ELSE covering

(* C17: formatTime(ms) shows S = max(0, ceil(ms / 1000)) seconds as        *)
(* hours = S div 3600, minutes = (S mod 3600) div 60, seconds = S mod 60,  *)
(* rendered H:MM:SS when hours > 0 and M:SS otherwise, seconds always two  *)
(* digits, minutes two digits only in the H:MM:SS form; 999 -> 0:01,       *)
(* 1001 -> 0:02, 3599000 -> 59:59, 3600000 -> 1:00:00.                     *)
C17_FormatTime ==
    formatted # NotFormatted =>
        LET S == DisplayedSeconds(ms)
            hours == S \div 3600
            minutes == (S % 3600) \div 60
            seconds == S % 60
        IN  /\ formatted =
                   IF hours > 0
                   THEN Decimal(hours) \o ":" \o TwoDigits(minutes)
                            \o ":" \o TwoDigits(seconds)
                   ELSE Decimal(minutes) \o ":" \o TwoDigits(seconds)
            /\ ms = 0 => formatted = "0:00"
            /\ ms = -5000 => formatted = "0:00"
            /\ ms = 999 => formatted = "0:01"
            /\ ms = 1001 => formatted = "0:02"
            /\ ms = 3599000 => formatted = "59:59"
            /\ ms = 3600000 => formatted = "1:00:00"

C17_Witness ==
    /\ ms = 3599001
    /\ formatted = "1:00:00"

----------------------------------------------------------------------------
(* Properties of the game driver (checked under GameSpec) *)

\* the operation of this step obtained a TickResult with expired = true
Expiry == frameResult # Null /\ frameResult.expired

(* C18, as stated: when a tick of the active player reports expired, the   *)
(* status becomes ended and winner is the opponent of the expired player;  *)
(* from then on winner never changes under any later driver operation,     *)
(* reset included.                                                         *)
C18_WinnerNeverChanges ==
    [][/\ Expiry' =>
              /\ game'.status = "ended"
              /\ game'.winner = Opponent(game.activePlayer)
       /\ game.winner # NoPlayer => game'.winner = game.winner]_vars

(* C18, amended: when a tick of the active player reports expired, the     *)
(* status becomes ended and winner is the opponent of the expired player;  *)
(* from then on no frame, switchTurn, pause, resume or start changes       *)
(* winner: it stays until reset.                                           *)
C18_WinnerStaysUntilReset ==
    [][/\ Expiry' =>
              /\ game'.status = "ended"
              /\ game'.winner = Opponent(game.activePlayer)
       /\ game.winner # NoPlayer /\ gop' # "reset" =>
              game'.winner = game.winner]_vars

\* a switchTurn() has landed on a game that ended with white as the winner
C18_Witness ==
    /\ game.status = "ended"
    /\ game.winner = "white"
    /\ game.activePlayer = "black"
    /\ gop = "switchTurn"

(* C19: black always moves first: in every game the active player at the   *)
(* moment the status becomes running out of waiting (the first clock to    *)
(* run) is black.                                                          *)
C19_BlackMovesFirst ==
    [][game.status = "waiting" /\ game'.status = "running" =>
           game'.activePlayer = "black"]_vars

(* C20: start, pause, resume, expiry and switchTurn change the status only *)
(* along the lifecycle: start takes waiting to running, pause running to   *)
(* paused, resume paused to running, expiry running to ended, and          *)
(* switchTurn never changes the status; start outside waiting, pause       *)
(* outside running, resume outside paused, and a frame or a switchTurn     *)
(* outside running leave the whole game state unchanged.                   *)
C20_Lifecycle ==
    [][/\ game'.status # game.status /\ gop' # "reset" =>
              \/ /\ gop' = "start"
                 /\ game.status = "waiting"
                 /\ game'.status = "running"
              \/ /\ gop' = "pause"
                 /\ game.status = "running"
                 /\ game'.status = "paused"
              \/ /\ gop' = "resume"
                 /\ game.status = "paused"
                 /\ game'.status = "running"
              \/ /\ gop' = "frame"
                 /\ Expiry'
                 /\ game.status = "running"
                 /\ game'.status = "ended"
       /\ gop' = "start" /\ game.status # "waiting" => game' = game
       /\ gop' = "pause" /\ game.status # "running" => game' = game
       /\ gop' = "resume" /\ game.status # "paused" => game' = game
       /\ gop' = "frame" /\ game.status # "running" => game' = game
       /\ gop' = "switchTurn" /\ game.status # "running" => game' = game
       /\ gop' = "start" /\ game.status = "waiting" =>
              game'.status = "running"
       /\ gop' = "pause" /\ game.status = "running" =>
              game'.status = "paused"
       /\ gop' = "resume" /\ game.status = "paused" =>
              game'.status = "running"
       /\ Expiry' => game.status = "running" /\ game'.status = "ended"]_vars

\* pause() has been called on a game that had already ended
C20_Witness ==
    /\ gop = "pause"
    /\ game.status = "ended"

\* the operation of this step applied tick to the active player's clock
Ticked == frameResult # Null

\* the operation of this step obtained a TickResult with enteredOvertime = true
OvertimeEntry == frameResult # Null /\ frameResult.enteredOvertime

\* the clock state createInitialPlayerState gives under the configuration
FreshClock ==
    [mainTimeRemainingMs |-> config.mainTimeSeconds * MsPerSecond,
     overtime |-> Null,
     moves |-> 0,
     isInOvertime |-> FALSE]

(* C21: while the status is waiting, paused or ended no frame callback     *)
(* changes either player's clock state: tick is applied only when the      *)
(* state the update is applied to has status running, also for a frame     *)
(* callback already scheduled or in flight when pause or expiry happens.   *)
C21_NoTickUnlessRunning ==
    [][/\ gop' = "frame" /\ game.status # "running" =>
              /\ game'.black = game.black
              /\ game'.white = game.white
              /\ ~Ticked'
       /\ Ticked' => gop' = "frame" /\ game.status = "running"]_vars

\* a frame callback that was in flight when the game was paused has run
C21_Witness ==
    /\ gop = "frame"
    /\ lastTickSet
    /\ rendered.status = "running"
    /\ game.status = "paused"
    /\ game[game.activePlayer].mainTimeRemainingMs > 0

(* C22: switchTurn in status running applies onMove to the active player's *)
(* clock state only, leaves the other player's clock state, the status and *)
(* the winner unchanged and flips activePlayer; each frame that ticks      *)
(* replaces only the active player's clock state, with the tick result.    *)
C22_TurnAndFrameEffects ==
    [][LET activePlayer == game.activePlayer
           other == Opponent(game.activePlayer)
       IN  /\ gop' = "switchTurn" /\ game.status = "running" =>
                  /\ game'[activePlayer] = onMove(game[activePlayer], config)
                  /\ game'[other] = game[other]
                  /\ game'.status = game.status
                  /\ game'.winner = game.winner
                  /\ game'.activePlayer = other
           /\ Ticked' =>
                  /\ \E delta \in FrameDeltas :
                         game'[activePlayer] =
                             tick(game[activePlayer], config, delta).newState
                  /\ game'[other] = game[other]
                  /\ game'.activePlayer = activePlayer
                  /\ ~Expiry' =>
                         /\ game'.status = game.status
                         /\ game'.winner = game.winner]_vars

\* each player has ended one turn, the second switchTurn has just landed
C22_Witness ==
    /\ gop = "switchTurn"
    /\ cues = {"click"}
    /\ game.status = "running"
    /\ game.black.moves = 1
    /\ game.white.moves = 1

C24_GongOncePerGame ==
    [][/\ "gong" \in cues' <=> Expiry'
       /\ Expiry' => game.status = "running" /\ game'.status = "ended"
       /\ game.status = "ended" /\ gop' # "reset" =>
              /\ game'.status = "ended"
              /\ ~Ticked'
              /\ "gong" \notin cues']_vars

\* a frame callback has run after the game ended, without a cue
C24_Witness ==
    /\ gop = "frame"
    /\ lastTickSet
    /\ game.status = "ended"
    /\ cues = {}

(* C25: the entered-overtime notification is one-time: for each player the *)
(* alert cue for overtime entry is played in the frame whose tick returns  *)
(* enteredOvertime = true for that player, and no tick returns it again    *)
(* for that player until reset.                                            *)
C25_OvertimeEntryAlertedOnce ==
    [][\A p \in Player :
           /\ OvertimeEntry' /\ game.activePlayer = p =>
                  /\ "alert" \in cues'
                  /\ ~game[p].isInOvertime
                  /\ game'[p].isInOvertime
           /\ game[p].isInOvertime /\ gop' # "reset" =>
                  /\ game'[p].isInOvertime
                  /\ ~(OvertimeEntry' /\ game.activePlayer = p)]_vars

\* a later frame has ticked black's clock in overtime without the alert
C25_Witness ==
    /\ gop = "frame"
    /\ Ticked
    /\ ~OvertimeEntry
    /\ game.activePlayer = "black"
    /\ game.black.isInOvertime
    /\ "black" \in enteredOvertimeRef
    /\ "alert" \notin cues

\* the operation of this step was a frame whose tick left the active player
\* time, so that the frame went on to look at the displayed time
Observed == Ticked /\ ~Expiry

\* whole seconds shown for a displayed time in milliseconds
ShownSeconds(displayMs) == MathCeilDiv(displayMs, MsPerSecond)

\* byo-yomi periods the active player has before this step
PeriodsBefore ==
    IF game[game.activePlayer].isInOvertime
    THEN game[game.activePlayer].overtime.periodsRemaining
    ELSE config.periods

\* the tick of this step consumed a byo-yomi period and left the player one
PeriodConsumed ==
    /\ config.type = "byoyomi"
    /\ Ticked'
    /\ game'[game.activePlayer].isInOvertime
    /\ game'[game.activePlayer].overtime.periodsRemaining < PeriodsBefore
    /\ game'[game.activePlayer].overtime.periodsRemaining > 0

(* C26: while the active player's displayed time counts down without a     *)
(* move, the tick cue is played exactly once for each displayed whole      *)
(* second in 5..1 that a frame observes: in the first frame of the         *)
(* countdown that shows the value, and in no later frame that shows it.    *)
(* A countdown starts with the turn and whenever the displayed time goes   *)
(* up (overtime entry, period replenishment).                              *)
C26_CountdownBeeps ==
    [][Observed' =>
           LET before == getDisplayTime(game[game.activePlayer])
               after == getDisplayTime(game'[game.activePlayer])
               value == ShownSeconds(after)
               newCountdown == after > before \/ prevDisplayMsRef = 0
               lastShown == ShownSeconds(prevDisplayMsRef)
           IN  value \in 1..5 =>
                   ("tick" \in cues' <=> (newCountdown \/ value < lastShown))
      ]_vars

(* C27: the set of already-fired countdown thresholds is cleared on every  *)
(* switchTurn that makes a move, on every reset, and on every overtime     *)
(* entry and byo-yomi period replenishment, so that the beep of the value  *)
(* shown plays again in the new period, whatever the period duration.      *)
C27_ThresholdsCleared ==
    [][/\ gop' = "switchTurn" /\ game.status = "running" =>
              lowTimeAlertedRef' = {}
       /\ gop' = "reset" => lowTimeAlertedRef' = {}
       /\ Observed' /\ (OvertimeEntry' \/ PeriodConsumed) =>
              LET value ==
                      ShownSeconds(getDisplayTime(game'[game.activePlayer]))
              IN  /\ lowTimeAlertedRef' \subseteq {value}
                  /\ value \in 1..5 => "tick" \in cues']_vars

(* C28: whenever a frame's tick consumes a byo-yomi period without         *)
(* expiring the player (periodsRemaining decreases and stays above 0), the *)
(* alert cue is played in that frame.                                      *)
C28_AlertOnPeriodConsumed ==
    [][PeriodConsumed => "alert" \in cues']_vars

(* C29: with a Fischer configuration the Fischer branch of the overtime    *)
(* tick is never executed in a run of the game driver: no frame applies    *)
(* tick to a clock state that is in overtime, because a Fischer player     *)
(* who has exhausted main time has ended the game.                         *)
C29_FischerOvertimeTickUnreachable ==
    [][config.type = "fischer" =>
           /\ Ticked' => ~game[game.activePlayer].isInOvertime
           /\ \A p \in Player :
                  game'[p].isInOvertime =>
                      /\ game'.status = "ended"
                      /\ game'.activePlayer = p
                      /\ game'[p].overtime = Null]_vars

\* a frame callback has run after a Fischer player exhausted the main time
C29_Witness ==
    /\ config.type = "fischer"
    /\ game[game.activePlayer].isInOvertime
    /\ game.winner = Opponent(game.activePlayer)
    /\ gop = "frame"
    /\ ~Ticked

----------------------------------------------------------------------------
(* Properties of the engine (checked under Spec), continued *)

(* C30: splitting a delta does not change the outcome: for every state s   *)
(* reachable from an initial state and all a, b >= 0,                      *)
(* tick(tick(s, a).newState, b).newState = tick(s, a + b).newState, the    *)
(* expired flag of tick(s, a + b) is that of the second split call, and    *)
(* its enteredOvertime flag is the OR of the flags of the two split calls. *)
(* The whole delta a + b ranges over the deltas of the model.              *)
C30_SplitDelta ==
    \A a, b \in Deltas :
        a + b \in Deltas =>
        \A first \in {tick(state, config, a)} :
            \A second \in {tick(first.newState, config, b)} :
                \A whole \in {tick(state, config, a + b)} :
                    /\ second.newState = whole.newState
                    /\ whole.expired = second.expired
                    /\ whole.enteredOvertime =
                           (first.enteredOvertime \/ second.enteredOvertime)

\* one tick has carried a byo-yomi clock from main time through the entry
\* into overtime and past a period, as a first part that stays in main time
\* and a second part would have done
C30_Witness ==
    /\ op = "tick"
    /\ config.type = "byoyomi"
    /\ ~input.isInOvertime
    /\ state.isInOvertime
    /\ ~expired
    /\ state.overtime.periodsRemaining < config.periods
    /\ \E a, b \in Deltas \ {0} :
           /\ a + b = deltaMs
           /\ a < input.mainTimeRemainingMs
           /\ tick(tick(input, config, a).newState, config, b).newState = state

\* C32: isInOvertime is monotone: no call of tick or onMove on a state in
\* overtime returns a state out of overtime, and tick returns
\* enteredOvertime = true only for a state that was not in overtime, hence
\* at most once over any sequence of calls from the initial state.
C32_OvertimeIsMonotone ==
    [][/\ state.isInOvertime => state'.isInOvertime
       /\ (op' = "tick" /\ enteredOvertime')
              => (~state.isInOvertime /\ state'.isInOvertime)]_vars

\* Reached: overtime entered by a tick and kept by a later onMove that
\* replenishes the Canadian stone counter.
C32_Witness ==
    /\ op = "onMove"
    /\ config.type = "canadian"
    /\ input.isInOvertime
    /\ input.overtime.stonesRemaining = 1
    /\ state.isInOvertime
    /\ state.overtime.stonesRemaining = config.stones

\* The overtime counters of a state lie within the configuration
CountersInRange(st) ==
    CASE ~st.isInOvertime -> TRUE
      [] st.isInOvertime /\ config.type = "byoyomi" ->
             /\ 1 <= st.overtime.periodsRemaining
             /\ st.overtime.periodsRemaining <= config.periods
             /\ 0 < st.overtime.periodTimeRemainingMs
             /\ st.overtime.periodTimeRemainingMs
                    <= config.periodTimeSeconds * MsPerSecond
      [] st.isInOvertime /\ config.type = "canadian" ->
             /\ 1 <= st.overtime.stonesRemaining
             /\ st.overtime.stonesRemaining <= config.stones
             /\ 0 < st.overtime.overtimeRemainingMs
             /\ st.overtime.overtimeRemainingMs
                    <= config.overtimeSeconds * MsPerSecond
      [] st.isInOvertime /\ config.type = "fischer" -> TRUE

\* C33: as long as no tick has reported expired, the overtime counters are
\* strictly positive and bounded by the configuration.  The initial state
\* is out of overtime, and every call other than a tick that reports
\* expired takes a state with counters in range to one with counters in
\* range, with periodsRemaining not increased.
C33_CountersInRange ==
    [][(CountersInRange(state) /\ ~(op' = "tick" /\ expired'))
          => /\ CountersInRange(state')
             /\ (state.isInOvertime /\ config.type = "byoyomi")
                    => state'.overtime.periodsRemaining
                           <= state.overtime.periodsRemaining]_vars

\* Reached: a byo-yomi clock in overtime after a tick that consumed a
\* period without expiring.
C33_Witness ==
    /\ op = "tick"
    /\ ~expired
    /\ config.type = "byoyomi"
    /\ input.isInOvertime
    /\ state.overtime.periodsRemaining < input.overtime.periodsRemaining
    /\ CountersInRange(state)

----------------------------------------------------------------------------
(* Properties of a clock that is only ticked (checked under AllowanceSpec) *)

\* The time a configuration grants a player who never moves
Allowance ==
    CASE config.type = "byoyomi" ->
             config.mainTimeSeconds * MsPerSecond
                 + config.periods * config.periodTimeSeconds * MsPerSecond
      [] config.type = "canadian" ->
             (config.mainTimeSeconds + config.overtimeSeconds) * MsPerSecond
      [] config.type = "fischer" ->
             config.mainTimeSeconds * MsPerSecond

\* C31: from a fresh clock and with no onMove, the last tick reports
\* expired exactly when the deltas of the ticks made so far sum to at
\* least the allowance of the configuration: main time plus all periods
\* (byo-yomi), main time plus the overtime (Canadian), main time (Fischer);
\* with periods = 0 that is the moment main time is exhausted.
C31_TotalAllowance ==
    op = "tick" => (expired <=> elapsedMs >= Allowance)

\* Reached: main time run out over several ticks with no periods to follow.
C31_Witness ==
    /\ op = "tick"
    /\ expired
    /\ deltaMs < elapsedMs
    /\ elapsedMs = Allowance
    /\ config.type = "byoyomi"
    /\ config.periods = 0
    /\ config.mainTimeSeconds > 0

----------------------------------------------------------------------------
(* Properties of the driver (checked under GameSpec), continued *)

\* C34: in every reachable game state winner is non-null exactly when the
\* status is ended, and then the winner is the opponent of activePlayer,
\* which still names the player whose clock expired.
C34_WinnerIffEnded ==
    /\ game.winner # NoPlayer <=> game.status = "ended"
    /\ game.status = "ended"
          => /\ game.winner = Opponent(game.activePlayer)
             /\ ~HasTimeLeft(game[game.activePlayer])

\* Reached: white's clock expired in a frame after black had moved.
C34_Witness ==
    /\ gop = "frame"
    /\ Expiry
    /\ game.status = "ended"
    /\ game.activePlayer = "white"
    /\ game.winner = "black"
    /\ game.black.moves = 1

\* C35: turns alternate.  In every reachable game state the moves counts
\* of the two players differ by at most 1 and the active player has not
\* made more moves than the other; the sum of the counts is 0 initially
\* and after reset, grows by 1 with every switchTurn that finds the game
\* running, and is changed by nothing else.
C35_TurnsAlternate ==
    /\ [](/\ game.black.moves - game.white.moves \in {-1, 0, 1}
          /\ game[game.activePlayer].moves
                 <= game[Opponent(game.activePlayer)].moves)
    /\ [][MovesMade(game') =
             IF gop' = "reset" THEN 0
             ELSE IF gop' = "switchTurn" /\ game.status = "running"
             THEN MovesMade(game) + 1
             ELSE MovesMade(game)]_vars

\* Reached: white has answered black's move and black is to move again,
\* in a game that white's tap started.
C35_Witness ==
    /\ gop = "switchTurn"
    /\ game.status = "running"
    /\ game.activePlayer = "black"
    /\ game.black.moves = 1
    /\ game.white.moves = 1
    /\ rendered.activePlayer = "white"

\* A step other than a switchTurn, a pause or a reset
Undisturbed == gop' \notin {"switchTurn", "pause", "reset"}

\* C36: with frames that keep arriving, if from some point on no
\* switchTurn, pause or reset occurs and the game is running then (it is
\* running or ended again and again, not waiting or paused for good), the
\* game eventually has status ended with a winner, and keeps it.
C36_GameEnds ==
    (/\ <>[][Undisturbed]_vars
     /\ []<>(game.status \in {"running", "ended"}))
        => <>[](game.status = "ended" /\ game.winner # NoPlayer)

\* Reached: a Canadian clock that frames took through main time and
\* overtime to expiry.
C36_Witness ==
    /\ gop = "frame"
    /\ Expiry
    /\ config.type = "canadian"
    /\ game.status = "ended"
    /\ game.winner # NoPlayer
    /\ game[game.activePlayer].isInOvertime
    /\ game[game.activePlayer].moves = 0

\* A frame that charges the active player's clock
Charged == gop = "frame" /\ Ticked

Resolved(call) == CopiesIn(call, pending') < CopiesIn(call, pending)

\* C38: onMove is applied to a player's clock only in response to a tap on
\* that player's own clock: a switchTurn that ends the turn of the active
\* player was called by a tap on the active player's clock.
C38_TapEndsOwnTurnOnly ==
    [][(gop' = "switchTurn" /\ game.status = "running")
          => \A player \in Player :
                 Resolved(SwitchTurnCall(player))
                     => player = game.activePlayer]_vars

\* C39: a frame charges a player only for time of that player's turn: the
\* time since lastTickRef was assigned that a frame charges holds no time
\* that elapsed before a switchTurn.
C39_OnlyOwnTurnCharged ==
    [][Charged' => ~sinceLastTick.otherTurn]_vars

----------------------------------------------------------------------------
(* Property of the wake lock (checked under WakeLockSpec) *)

\* C40: the wake lock is held only while the game is running: once active
\* is false and every request has settled, no sentinel acquired by the
\* hook remains unreleased.
C40_NoLockWhenInactive ==
    (~active /\ requests = 0) => held = {}

====
